---- MODULE Spec2Model ----
(***************************************************************************)
(* Model of the grading pipeline in src/src/hud_controller/grading_runner.py *)
(* (class GradingRunner): anti-cheat reset, test-patch application, the     *)
(* per-package test loop with its result-document files, the merge of the   *)
(* per-package documents and the reduction of the merged document to a      *)
(* score.                                                                    *)
(*                                                                          *)
(* Strings that the code manipulates character by character (file paths,    *)
(* package identifiers, result-file names) are sequences of one-character   *)
(* strings.  XML text is modelled by what a parser sees of it: whether it   *)
(* still carries the XML declaration, whether it is well-formed, and the    *)
(* element tree.  Scores are integers in units of 1/Scale.                  *)
(***************************************************************************)
EXTENDS Integers, Sequences, FiniteSets, TLC

(***************************************************************************)
(* Bounds of the model                                                      *)
(***************************************************************************)
\* longest test_files list handed to the constructor
MaxFiles == 2
\* largest count attribute of a generated suite (ScoreSpec)
MaxCount == 1
\* most testcase elements in a generated suite without count attributes
MaxCases == 1
\* most suites in a generated result document (ScoreSpec)
MaxSuites == 2

\* scores are kept with four decimal digits: 1.0 is Scale, 0.1 is Scale \div 10
Scale == 10000

(***************************************************************************)
(* Character strings                                                        *)
(***************************************************************************)
\* code point of the characters that occur in the modelled paths
Ord(c) ==
  CASE c = "." -> 46
    [] c = "/" -> 47
    [] c = "T" -> 84
    [] c = "_" -> 95
    [] c = "a" -> 97
    [] c = "b" -> 98
    [] c = "e" -> 101
    [] c = "g" -> 103
    [] c = "i" -> 105
    [] c = "m" -> 109
    [] c = "o" -> 111
    [] c = "s" -> 115
    [] c = "t" -> 116
    [] c = "u" -> 117
    [] c = "x" -> 120
    [] c = "y" -> 121

Min(a, b) == IF a <= b THEN a ELSE b

\* Python's str < str: lexicographic by code point
StrLess(s, t) ==
  \E k \in 0..Min(Len(s), Len(t)) :
    /\ \A i \in 1..k : s[i] = t[i]
    /\ \/ k = Len(s) /\ k < Len(t)
       \/ k < Len(s) /\ k < Len(t) /\ Ord(s[k + 1]) < Ord(t[k + 1])

\* str.endswith
EndsWith(s, suffix) ==
  /\ Len(s) >= Len(suffix)
  /\ SubSeq(s, Len(s) - Len(suffix) + 1, Len(s)) = suffix

\* needle in hay
InStr(needle, hay) ==
  \E i \in 0..(Len(hay) - Len(needle)) :
    SubSeq(hay, i + 1, i + Len(needle)) = needle

StartsWith(s, prefix) ==
  /\ Len(s) >= Len(prefix)
  /\ SubSeq(s, 1, Len(prefix)) = prefix

\* str.lower() on the letters A-Z
Uppers ==
  <<"A", "B", "C", "D", "E", "F", "G", "H", "I", "J", "K", "L", "M",
    "N", "O", "P", "Q", "R", "S", "T", "U", "V", "W", "X", "Y", "Z">>
Lowers ==
  <<"a", "b", "c", "d", "e", "f", "g", "h", "i", "j", "k", "l", "m",
    "n", "o", "p", "q", "r", "s", "t", "u", "v", "w", "x", "y", "z">>
LowerChar(c) ==
  IF \E i \in 1..Len(Uppers) : Uppers[i] = c
  THEN Lowers[CHOOSE i \in 1..Len(Uppers) : Uppers[i] = c]
  ELSE c
Lower(s) == [i \in 1..Len(s) |-> LowerChar(s[i])]

\* str.replace(old, new) for a one-character old and a new of length <= 1
RECURSIVE ReplaceChar(_, _, _)
ReplaceChar(s, old, new) ==
  IF s = <<>> THEN <<>>
  ELSE (IF Head(s) = old THEN new ELSE <<Head(s)>>) \o ReplaceChar(Tail(s), old, new)

\* posixpath.dirname: the part before the last "/", trailing slashes removed
\* unless the head consists of slashes only
RECURSIVE RStripSlash(_)
RStripSlash(s) ==
  IF s # <<>> /\ s[Len(s)] = "/" THEN RStripSlash(SubSeq(s, 1, Len(s) - 1)) ELSE s

dirname(p) ==
  LET slashes == {i \in 1..Len(p) : p[i] = "/"}
      i == IF slashes = {} THEN 0 ELSE CHOOSE j \in slashes : \A k \in slashes : k <= j
      head == SubSeq(p, 1, i)
  IN  IF head # <<>> /\ \E k \in 1..Len(head) : head[k] # "/"
      THEN RStripSlash(head) ELSE head

\* variant of sorted that yields descending order
RECURSIVE sortedDescending(_)
sortedDescending(S) ==
  IF S = {} THEN <<>>
  ELSE LET m == CHOOSE x \in S : \A y \in S \ {x} : StrLess(y, x)
       IN  <<m>> \o sortedDescending(S \ {m})

\* sorted(list(S)) for a set of strings
RECURSIVE sorted(_)
sorted(S) ==
  IF S = {} THEN <<>>
  ELSE LET m == CHOOSE x \in S : \A y \in S \ {x} : StrLess(x, y)
       IN  <<m>> \o sorted(S \ {m})

Range(s) == {s[i] : i \in 1..Len(s)}

RECURSIVE SumSeq(_)
SumSeq(s) == IF s = <<>> THEN 0 ELSE Head(s) + SumSeq(Tail(s))

(***************************************************************************)
(* Result documents                                                         *)
(***************************************************************************)
\* an XML attribute as Element.get() returns it
NoAttr == [k |-> "none", v |-> 0]
Num(n) == [k |-> "int", v |-> n]
EmptyAttr == [k |-> "empty", v |-> 0]
TextAttr == [k |-> "text", v |-> 0]

\* <testsuite name=.. tests=.. failures=.. errors=.. skipped=..> with its
\* testcase children; a testcase is "pass", "failure", "error" or "skipped"
\* after the child element it carries
SuiteEl(name, tests, failures, errors, skipped, cases) ==
  [tag |-> "testsuite", name |-> name, tests |-> tests, failures |-> failures,
   errors |-> errors, skipped |-> skipped, cases |-> cases, children |-> <<>>]

\* <testsuites> with the given child elements
SuitesEl(children) ==
  [tag |-> "testsuites", name |-> <<>>, tests |-> NoAttr, failures |-> NoAttr,
   errors |-> NoAttr, skipped |-> NoAttr, cases |-> <<>>, children |-> children]

\* what is left of text that is not well-formed XML
Garbage ==
  [tag |-> "#malformed", name |-> <<>>, tests |-> NoAttr, failures |-> NoAttr,
   errors |-> NoAttr, skipped |-> NoAttr, cases |-> <<>>, children |-> <<>>]

\* XML text: decl = it contains the declaration <?xml version="1.0"
\* encoding="UTF-8"?> (at its start), wf = the rest is one well-formed element
Xml(decl, root) == [decl |-> decl, wf |-> root # Garbage, root |-> root]

(***************************************************************************)
(* Scoring: GradingRunner._calculate_score                                  *)
(***************************************************************************)
\* "if tests_attr:" - a present, non-empty attribute string
Truthy(a) == a.k \in {"int", "text"}

\* int(suite.get(attr, 0)) raises ValueError unless the attribute is absent
\* or the text of an integer
IntRaises(a) == a.k \in {"empty", "text"}
IntOf(a) == IF a.k = "int" THEN a.v ELSE 0

\* len(suite.findall("testcase/<kind>"))
CountCases(suite, kind) == Cardinality({i \in 1..Len(suite.cases) : suite.cases[i] = kind})

\* the loop body of _calculate_score for one suite: attribute counts when the
\* tests attribute is there, counted testcase elements otherwise
SuiteRaises(suite) ==
  /\ Truthy(suite.tests)
  /\ \/ suite.tests.k # "int"
     \/ IntRaises(suite.failures)
     \/ IntRaises(suite.errors)
     \/ IntRaises(suite.skipped)

SuiteCounts(suite) ==
  IF Truthy(suite.tests)
  THEN [tests |-> IntOf(suite.tests), failures |-> IntOf(suite.failures),
        errors |-> IntOf(suite.errors), skipped |-> IntOf(suite.skipped)]
  ELSE [tests |-> Len(suite.cases), failures |-> CountCases(suite, "failure"),
        errors |-> CountCases(suite, "error"), skipped |-> CountCases(suite, "skipped")]

\* suites = root.findall('testsuite') if root.tag == 'testsuites' else [root]
\* (findall with a bare tag name looks at the direct children only)
findall_testsuite(root) == SelectSeq(root.children, LAMBDA e : e.tag = "testsuite")
ScoredSuites(root) == IF root.tag = "testsuites" THEN findall_testsuite(root) ELSE <<root>>

\* the totals the loop accumulates
Totals(suites) ==
  [tests |-> SumSeq([i \in 1..Len(suites) |-> SuiteCounts(suites[i]).tests]),
   failures |-> SumSeq([i \in 1..Len(suites) |-> SuiteCounts(suites[i]).failures]),
   errors |-> SumSeq([i \in 1..Len(suites) |-> SuiteCounts(suites[i]).errors]),
   skipped |-> SumSeq([i \in 1..Len(suites) |-> SuiteCounts(suites[i]).skipped])]

\* variant of the decision that lets an empty run pass
BinaryDecisionEmptyPasses(t) ==
  IF t.failures > 0 \/ t.errors > 0 THEN 0 ELSE Scale

\* the decision at the end of _calculate_score
BinaryDecision(t) ==
  IF t.failures > 0 \/ t.errors > 0 THEN 0
  ELSE IF t.tests = 0 THEN 0
  ELSE Scale

\* _calculate_score: raised = an exception other than ET.ParseError leaves
\* the function (ValueError of int()); ParseError is caught and gives 0.0
calculate_score(xml) ==
  IF ~xml.wf THEN [raised |-> FALSE, score |-> 0, parsed |-> FALSE]
  ELSE IF \E i \in 1..Len(ScoredSuites(xml.root)) : SuiteRaises(ScoredSuites(xml.root)[i])
  THEN [raised |-> TRUE, score |-> 0, parsed |-> TRUE]
  ELSE [raised |-> FALSE, score |-> BinaryDecision(Totals(ScoredSuites(xml.root))),
        parsed |-> TRUE]

\* variant of the graduated policy that counts errors as passed
GraduatedDecisionIgnoresErrors(t) ==
  IF t.tests = 0 THEN Scale \div 10
  ELSE LET passed == t.tests - t.failures
           num == (Scale \div 10) * t.tests + 9 * (Scale \div 10) * passed
       IN  (2 * num + t.tests) \div (2 * t.tests)

\* The graduated policy of the specification (section 4.7); the source under
\* src/ has the binary policy only.  0.1 + 0.9 * passed / N rounded to four
\* decimal digits, in units of 1/Scale.  A tie (possible from N = 16 on) is
\* rounded up here.
GraduatedDecision(t) ==
  IF t.tests = 0 THEN Scale \div 10
  ELSE LET passed == t.tests - t.failures - t.errors
           num == (Scale \div 10) * t.tests + 9 * (Scale \div 10) * passed
       IN  (2 * num + t.tests) \div (2 * t.tests)

\* _format_junit_xml: one suite, one failing testcase; escape() keeps the
\* text well-formed whatever the message is
format_junit_xml(test_name) ==
  Xml(TRUE, SuitesEl(<<SuiteEl(test_name, Num(1), Num(1), Num(0), Num(0), <<"failure">>)>>))

(***************************************************************************)
(* Inputs of a run                                                          *)
(***************************************************************************)
\* "a/b/x.go", "a_b/y.go" and the non-Go path "a/b.md"
Paths ==
  { <<"a", "/", "b", "/", "x", ".", "g", "o">>,
    <<"a", "_", "b", "/", "y", ".", "g", "o">>,
    <<"a", "/", "b", ".", "m", "d">> }

SeqsUpTo(S, n) == UNION {[1..k -> S] : k \in 0..n}

\* result documents a test invocation may leave in its --junitfile: what
\* gotestsum writes (a testsuites root) for 5 passing tests, a bare suite of 5
\* passing and one of 5 failing tests, a suite whose tests attribute is not a
\* number, and text that is not well-formed
GoPass == Xml(TRUE, SuitesEl(<<SuiteEl(<<"p">>, Num(5), Num(0), Num(0), Num(0), <<>>)>>))
BarePass == Xml(TRUE, SuiteEl(<<"p">>, Num(5), Num(0), Num(0), NoAttr, <<>>))
BareFail == Xml(TRUE, SuiteEl(<<"p">>, Num(5), Num(5), Num(0), NoAttr, <<>>))
NonNumeric == Xml(TRUE, SuiteEl(<<"p">>, TextAttr, NoAttr, NoAttr, NoAttr, <<>>))
Malformed == Xml(TRUE, Garbage)
ScopeDocs == {GoPass, BarePass, BareFail, NonNumeric, Malformed}

\* what one subprocess.run of gotestsum can do: raise TimeoutExpired, raise
\* OSError, or return with an exit status, having written its --junitfile
\* (wrote = <<doc>>) or not (wrote = <<>>); says = the first 500 characters
\* of its stdout contain the word "Timeout" (read only when rc # 0); build =
\* the package did not compile, which go test reports as a non-zero exit
ExitOutcome(rc, says, wrote) ==
  [kind |-> "exit", rc |-> rc, says |-> says, wrote |-> wrote, build |-> FALSE]
BuildFailure(wrote) ==
  [kind |-> "exit", rc |-> 1, says |-> FALSE, wrote |-> wrote, build |-> TRUE]

Outcomes ==
  {[kind |-> "timeout", rc |-> 0, says |-> FALSE, wrote |-> <<>>, build |-> FALSE],
   [kind |-> "oserror", rc |-> 0, says |-> FALSE, wrote |-> <<>>, build |-> FALSE]}
  \cup {ExitOutcome(0, FALSE, w) :
          w \in {<<>>, <<GoPass>>, <<BarePass>>, <<NonNumeric>>, <<Malformed>>}}
  \cup {ExitOutcome(1, FALSE, <<>>), ExitOutcome(1, FALSE, <<BareFail>>),
        ExitOutcome(1, TRUE, <<BareFail>>)}
  \cup {BuildFailure(<<>>), BuildFailure(<<BareFail>>)}

(***************************************************************************)
(* Test scopes: GradingRunner._get_target_packages and the file names of    *)
(* _run_tests                                                               *)
(***************************************************************************)
AllPackages == <<".", "/", ".", ".", ".">>
TestPackages == <<".", "/", "t", "e", "s", "t", "/", ".", ".", ".">>
DotGo == <<".", "g", "o">>

\* the for loop over self.test_files that fills the set packages
RECURSIVE PackagesOf(_)
PackagesOf(fs) ==
  IF fs = <<>> THEN {}
  ELSE LET filepath == Head(fs)
           directory == dirname(filepath)
       IN  (IF EndsWith(filepath, DotGo)
            THEN (IF directory # <<>> THEN {<<".", "/">> \o directory} ELSE {<<".">>})
            ELSE {})
           \cup PackagesOf(Tail(fs))

get_target_packages(fs, testDir) ==
  IF fs = <<>> THEN <<AllPackages>>
  ELSE sorted(PackagesOf(fs) \cup (IF testDir THEN {TestPackages} ELSE {}))

\* f"junit_{pkg.replace('/', '_').replace('.', '')}.xml"
pkg_xml_file(pkg) ==
  <<"j", "u", "n", "i", "t", "_">>
  \o ReplaceChar(ReplaceChar(pkg, "/", <<"_">>), ".", <<>>)
  \o <<".", "x", "m", "l">>

\* content.replace('<?xml version="1.0" encoding="UTF-8"?>', '')
StripDecl(xml) == [xml EXCEPT !.decl = FALSE]

\* the synthetic suite appended when a package times out
TimeoutSuite(pkg) ==
  Xml(FALSE, SuiteEl(pkg, Num(1), Num(1), NoAttr, NoAttr, <<"failure">>))

\* final_xml: declaration, <testsuites>, the joined parts, </testsuites>.  It
\* parses only if every part is a well-formed element without a declaration
\* of its own
MergeXml(parts) ==
  [decl |-> TRUE,
   wf |-> \A i \in 1..Len(parts) : parts[i].wf /\ ~parts[i].decl,
   root |-> SuitesEl([i \in 1..Len(parts) |-> parts[i].root])]

TimeoutWord == <<"T", "i", "m", "e", "o", "u", "t">>

\* failure_reason = f"Test failure in {pkg}\n{result.stdout[:500]}"
FailureReason(pkg, says) == [set |-> TRUE, pkg |-> pkg, says |-> says]
NoReason == [set |-> FALSE, pkg |-> <<>>, says |-> FALSE]

\* "Timeout" in failure_reason
MentionsTimeout(reason) == reason.set /\ (reason.says \/ InStr(TimeoutWord, reason.pkg))

(***************************************************************************)
(* Files of the workspace and the restoration of _reset_test_files          *)
(***************************************************************************)
\* files of repo_path the agent can edit: "test/e_test.go", the test file
\* "a/b/X_test.go" of a package directory and the source file "a/b/x.go"
TestDirFile == <<"t", "e", "s", "t", "/", "e", "_", "t", "e", "s", "t", ".", "g", "o">>
PackageTestFile == <<"a", "/", "b", "/", "X", "_", "t", "e", "s", "t", ".", "g", "o">>
SourceFile == <<"a", "/", "b", "/", "x", ".", "g", "o">>
WorkspacePaths == {TestDirFile, PackageTestFile, SourceFile}

\* is_test_file of mine_hud_tasks.py
is_test_file(filepath) ==
  LET lower == Lower(filepath)
  IN  IF EndsWith(lower, <<"_", "t", "e", "s", "t", ".", "g", "o">>) THEN TRUE
      ELSE IF InStr(<<"t", "e", "s", "t", "/">>, lower)
              \/ InStr(<<"t", "e", "s", "t", "s", "/">>, lower) THEN TRUE
      ELSE FALSE

\* the pathspec of git archive in _reset_test_files: "test/"
ArchivedPath(filepath) == StartsWith(filepath, <<"t", "e", "s", "t", "/">>)

\* the test files of the golden reference
GoldenPaths == {f \in WorkspacePaths : is_test_file(f)}

\* variant of the extraction that swaps the file with the archived one
ExtractedBySwap(content) == IF content = "golden" THEN "agent" ELSE "golden"

\* tar -x: the file has the archived content, whatever it had before
Extracted(content) == "golden"

\* _reset_test_files on the workspace ws (file -> "absent", "agent" content,
\* "golden" content) where repo_path/test exists or not (td): returns at
\* once without a golden reference; otherwise extracts the golden test/ over
\* repo_path (ok), or the command fails and the error is passed over
reset_test_files(ws, td, golden, ok) ==
  IF ~golden THEN [workspace |-> ws, testDirExists |-> td, failed |-> FALSE]
  ELSE IF ok
  THEN [workspace |->
          [f \in DOMAIN ws |->
             IF ArchivedPath(f) /\ f \in GoldenPaths THEN Extracted(ws[f]) ELSE ws[f]],
        testDirExists |-> TRUE, failed |-> FALSE]
  ELSE [workspace |-> ws, testDirExists |-> td, failed |-> TRUE]

\* the workspace as the agent left it
AgentWorkspace(td) ==
  [f \in WorkspacePaths |-> IF ArchivedPath(f) /\ ~td THEN "absent" ELSE "agent"]

(***************************************************************************)
(* State                                                                    *)
(***************************************************************************)
VARIABLES
  pc,                \* position of run_grading
  test_files,        \* self.test_files
  use_golden,        \* self.use_golden is a non-empty reference
  testDirExists,     \* os.path.exists(repo_path/test)
  workspace,         \* files of repo_path: "absent", "agent" or "golden" content
  reset_failed,      \* the restoration command exited with an error
  patch_state,       \* test patch file: "absent", "pending", "applied"
  target_packages,   \* _run_tests: target_packages
  idx,               \* _run_tests: position of the for loop (1-based)
  merged_xml_parts,  \* _run_tests: merged_xml_parts
  overall_success,   \* _run_tests: overall_success
  failure_reason,    \* _run_tests: failure_reason
  files,             \* the junit_*.xml files in repo_path: name -> content
  junit_xml,         \* run_grading: junit_xml, <<>> until _run_tests returned
  result,            \* what run_grading returned
  runs,              \* history: the test invocations made, in order
  part_pkgs,         \* history: the package whose iteration appended each part
  stages,            \* history: the stages entered, in order
  policy,            \* scoring policy applied (ScoreSpec)
  written_by         \* history: the invocation that wrote each junit_*.xml

\* the shell of tools/bash.py
VARIABLES
  session,           \* BashTool._session: "None" or "session"
  started,           \* _BashSession._started
  timed_out,         \* _BashSession._timed_out
  exited,            \* _process.returncode is not None
  stdin,             \* the commands written to _process.stdin, in order
  executed,          \* how many of them the shell has run to their end
  echoing,           \* the shell ran the next command and is at its echo
  stdout_buffer,     \* _process.stdout._buffer
  stderr_buffer,     \* _process.stderr._buffer
  polling,           \* run() is in its loop, waiting for the sentinel
  tool_result        \* what the last call returned or raised

bashVars ==
  <<session, started, timed_out, exited, stdin, executed, echoing, stdout_buffer,
    stderr_buffer, polling, tool_result>>

vars ==
  <<pc, test_files, use_golden, testDirExists, workspace, reset_failed, patch_state,
    target_packages, idx, merged_xml_parts, overall_success, failure_reason, files,
    junit_xml, result, runs, part_pkgs, stages, policy, written_by, bashVars>>

\* BashTool.__init__: no session yet
NoResult == [type |-> "none", output |-> <<>>, error |-> <<>>, system |-> ""]
BashInit ==
  /\ session = "None"
  /\ started = FALSE
  /\ timed_out = FALSE
  /\ exited = FALSE
  /\ stdin = <<>>
  /\ executed = 0
  /\ echoing = FALSE
  /\ stdout_buffer = <<>>
  /\ stderr_buffer = <<>>
  /\ polling = FALSE
  /\ tool_result = NoResult

NoFiles == [n \in {} |-> Malformed]
NoWriters == [n \in {} |-> [run |-> "self", pkg |-> <<>>]]
NotReturned == [returned |-> FALSE, score |-> 0, keys |-> {}, junit |-> <<>>]

\* return score, {"junit": ..., "test_duration": ..., "total_duration": ...}
Returned(score, xml) ==
  [returned |-> TRUE, score |-> score,
   keys |-> {"junit", "test_duration", "total_duration"}, junit |-> <<xml>>]

\* except Exception as e: return 0.0, {"error": str(e)}
ReturnedError == [returned |-> TRUE, score |-> 0, keys |-> {"error"}, junit |-> <<>>]

Init ==
  /\ pc = "start"
  /\ test_files \in SeqsUpTo(Paths, MaxFiles)
  /\ use_golden \in BOOLEAN
  /\ testDirExists \in BOOLEAN
  /\ workspace = AgentWorkspace(testDirExists)
  /\ reset_failed = FALSE
  /\ patch_state \in {"absent", "pending"}
  /\ target_packages = <<>>
  /\ idx = 1
  /\ merged_xml_parts = <<>>
  /\ overall_success = TRUE
  /\ failure_reason = NoReason
  /\ files = NoFiles
  /\ junit_xml = <<>>
  /\ result = NotReturned
  /\ runs = <<>>
  /\ part_pkgs = <<>>
  /\ stages = <<>>
  /\ policy = "binary"
  /\ written_by = NoWriters
  /\ BashInit

\* the except clause of run_grading, entered from any stage
Except ==
  /\ result' = ReturnedError
  /\ pc' = "done"

(***************************************************************************)
(* run_grading, stage by stage                                              *)
(***************************************************************************)
\* self._reset_test_files(), succeeding or failing when it runs the command
\* git archive <golden> -- test/ | tar -x -C repo_path.  The command succeeds
\* only if the golden tree has test/, which is then in the workspace with
\* golden content; its failure (CalledProcessError) is swallowed
ResetTestFiles ==
  /\ pc = "start"
  /\ \E ok \in BOOLEAN :
       LET r == reset_test_files(workspace, testDirExists, use_golden, ok)
       IN  /\ workspace' = r.workspace
           /\ testDirExists' = r.testDirExists
           /\ reset_failed' = r.failed
  /\ pc' = "reset_done"
  /\ stages' = Append(stages, "AntiCheat")
  /\ UNCHANGED <<test_files, use_golden, patch_state, target_packages, idx,
                 merged_xml_parts, overall_success, failure_reason, files, junit_xml,
                 result, runs, part_pkgs, policy, written_by, bashVars>>

\* if os.path.exists(test_patch_path): git apply with check=False.  Reading
\* the patch or starting git may raise
ApplyTestPatch ==
  /\ pc = "reset_done"
  /\ stages' = Append(stages, "Patch")
  /\ \/ /\ patch_state = "absent"
        /\ pc' = "patched"
        /\ UNCHANGED <<patch_state, result>>
     \/ /\ patch_state = "pending"
        /\ patch_state' = "applied"
        /\ pc' = "patched"
        /\ UNCHANGED result
     \/ /\ patch_state = "pending"
        /\ Except
        /\ UNCHANGED patch_state
  /\ UNCHANGED <<test_files, use_golden, testDirExists, workspace, reset_failed,
                 target_packages, idx, merged_xml_parts, overall_success,
                 failure_reason, files, junit_xml, runs, part_pkgs, policy, written_by, bashVars>>

\* variant of run_grading that starts the tests before the patch stage
StartTestsBeforePatch ==
  /\ pc \in {"reset_done", "patched"}
  /\ target_packages' = get_target_packages(test_files, testDirExists)
  /\ idx' = 1
  /\ merged_xml_parts' = <<>>
  /\ overall_success' = TRUE
  /\ failure_reason' = NoReason
  /\ part_pkgs' = <<>>
  /\ pc' = IF target_packages' = <<>> THEN "loop_end" ELSE "loop"
  /\ stages' = Append(stages, "Test")
  /\ UNCHANGED <<test_files, use_golden, testDirExists, workspace, reset_failed,
                 patch_state, files, junit_xml, result, runs, policy, written_by, bashVars>>

\* _run_tests up to the for loop
StartTests ==
  /\ pc = "patched"
  /\ target_packages' = get_target_packages(test_files, testDirExists)
  /\ idx' = 1
  /\ merged_xml_parts' = <<>>
  /\ overall_success' = TRUE
  /\ failure_reason' = NoReason
  /\ part_pkgs' = <<>>
  /\ pc' = IF target_packages' = <<>> THEN "loop_end" ELSE "loop"
  /\ stages' = Append(stages, "Test")
  /\ UNCHANGED <<test_files, use_golden, testDirExists, workspace, reset_failed,
                 patch_state, files, junit_xml, result, runs, policy, written_by, bashVars>>

\* variant of the timeout handler without the break
NeverBreaksLoop(kind) == FALSE

\* "break" in the handler of subprocess.TimeoutExpired
BreaksLoop(kind) == kind = "timeout"

\* one iteration of the for loop: run gotestsum for the package, note a
\* non-zero exit, append the result file if it exists; a timeout appends the
\* synthetic suite and leaves the loop; any other exception ends the run
RunPackage ==
  /\ pc = "loop"
  /\ idx <= Len(target_packages)
  /\ \E o \in Outcomes :
       LET pkg == target_packages[idx]
           name == pkg_xml_file(pkg)
           written == IF o.wrote = <<>> THEN files
                      ELSE [n \in DOMAIN files \cup {name} |->
                              IF n = name THEN o.wrote[1] ELSE files[n]]
           writers == IF o.wrote = <<>> THEN written_by
                      ELSE [n \in DOMAIN written_by \cup {name} |->
                              IF n = name THEN [run |-> "self", pkg |-> pkg]
                              ELSE written_by[n]]
       IN  /\ runs' = Append(runs, [pkg |-> pkg, kind |-> o.kind, rc |-> o.rc,
                                     wrote |-> o.wrote, build |-> o.build,
                                     read |-> IF o.kind = "exit" /\ name \in DOMAIN written
                                              THEN <<writers[name]>> ELSE <<>>])
           /\ written_by' = IF o.kind = "exit" THEN writers ELSE written_by
           /\ \/ /\ o.kind = "exit"
                 /\ files' = written
                 /\ overall_success' = (overall_success /\ o.rc = 0)
                 /\ failure_reason' =
                      IF o.rc # 0 THEN FailureReason(pkg, o.says) ELSE failure_reason
                 /\ IF name \in DOMAIN written
                    THEN /\ merged_xml_parts' =
                              Append(merged_xml_parts, StripDecl(written[name]))
                         /\ part_pkgs' = Append(part_pkgs, pkg)
                    ELSE UNCHANGED <<merged_xml_parts, part_pkgs>>
                 /\ idx' = idx + 1
                 /\ pc' = IF idx = Len(target_packages) THEN "loop_end" ELSE "loop"
                 /\ UNCHANGED result
              \/ /\ o.kind = "timeout"
                 /\ overall_success' = FALSE
                 /\ merged_xml_parts' = Append(merged_xml_parts, TimeoutSuite(pkg))
                 /\ part_pkgs' = Append(part_pkgs, pkg)
                 /\ idx' = IF BreaksLoop(o.kind) THEN idx ELSE idx + 1
                 /\ pc' = IF BreaksLoop(o.kind) \/ idx = Len(target_packages)
                          THEN "loop_end" ELSE "loop"
                 /\ UNCHANGED <<files, failure_reason, result>>
              \/ /\ o.kind = "oserror"
                 /\ Except
                 /\ UNCHANGED <<files, overall_success, failure_reason,
                                merged_xml_parts, part_pkgs, idx>>
  /\ UNCHANGED <<test_files, use_golden, testDirExists, workspace, reset_failed,
                 patch_state, target_packages, junit_xml, stages, policy, bashVars>>

\* the document _run_tests returns: the merged parts, or the FatalError
\* document when a failure was noted and its reason contains "Timeout"
run_tests_result(parts, success, reason) ==
  IF ~success /\ MentionsTimeout(reason)
  THEN format_junit_xml(<<"F", "a", "t", "a", "l", "E", "r", "r", "o", "r">>)
  ELSE MergeXml(parts)

\* _run_tests after the loop
FinishTests ==
  /\ pc = "loop_end"
  /\ junit_xml' = <<run_tests_result(merged_xml_parts, overall_success, failure_reason)>>
  /\ pc' = "tested"
  /\ stages' = Append(stages, "Aggregate")
  /\ UNCHANGED <<test_files, use_golden, testDirExists, workspace, reset_failed,
                 patch_state, target_packages, idx, merged_xml_parts, overall_success,
                 failure_reason, files, result, runs, part_pkgs, policy, written_by, bashVars>>

\* score = self._calculate_score(junit_xml) and the return; a ValueError of
\* the scoring reaches the except clause
Score ==
  /\ pc = "tested"
  /\ stages' = Append(stages, "Score")
  /\ LET r == calculate_score(junit_xml[1])
     IN  IF r.raised THEN Except
         ELSE /\ result' = Returned(r.score, junit_xml[1])
              /\ pc' = "done"
  /\ UNCHANGED <<test_files, use_golden, testDirExists, workspace, reset_failed,
                 patch_state, target_packages, idx, merged_xml_parts, overall_success,
                 failure_reason, files, junit_xml, runs, part_pkgs, policy, written_by, bashVars>>

Next ==
  \/ ResetTestFiles
  \/ ApplyTestPatch
  \/ StartTests
  \/ RunPackage
  \/ FinishTests
  \/ Score

Spec == Init /\ [][Next]_vars

(***************************************************************************)
(* Two runs of run_grading over the same REPO_PATH                          *)
(***************************************************************************)
\* a test invocation of a second run of the same task, interleaved with the
\* for loop of this run: gotestsum of the other run writes the --junitfile
\* of one of its scopes into the repo_path both runs use.  One file of the
\* other run is there at a time
OtherRunWrites ==
  /\ pc = "loop"
  /\ \A n \in DOMAIN written_by : written_by[n].run = "self"
  /\ \E pkg \in Range(target_packages), doc \in {BarePass} :
       LET name == pkg_xml_file(pkg)
       IN  /\ files' = [n \in DOMAIN files \cup {name} |->
                          IF n = name THEN doc ELSE files[n]]
           /\ written_by' = [n \in DOMAIN written_by \cup {name} |->
                               IF n = name THEN [run |-> "other", pkg |-> pkg]
                               ELSE written_by[n]]
  /\ UNCHANGED <<pc, test_files, use_golden, testDirExists, workspace, reset_failed,
                 patch_state, target_packages, idx, merged_xml_parts, overall_success,
                 failure_reason, junit_xml, result, runs, part_pkgs, stages, policy, bashVars>>

ConcurrentNext ==
  \/ ResetTestFiles
  \/ ApplyTestPatch
  \/ StartTests
  \/ RunPackage
  \/ FinishTests
  \/ Score
  \/ OtherRunWrites

ConcurrentSpec == Init /\ [][ConcurrentNext]_vars

(***************************************************************************)
(* tools/bash.py: the denylist                                              *)
(***************************************************************************)
MaxCommands == 2

Digits == {"0", "1", "2", "3", "4", "5", "6", "7", "8", "9"}
\* \w, [a-f0-9] and \s of the regular expressions
WordChars == Range(Lowers) \cup Range(Uppers) \cup Digits \cup {"_"}
HexChars == {"a", "b", "c", "d", "e", "f"} \cup Digits
IsSpace(c) == c \in {" ", "\t", "\n"}
IsWordAt(s, i) == i >= 1 /\ i <= Len(s) /\ s[i] \in WordChars

\* a regular expression is a sequence of elements: "\\b", "\\s+", "[a-f0-9]",
\* "[a-f0-9]{7,}" or a literal character.  MatchFrom: the elements k.. of p
\* match s from position i on
RECURSIVE MatchFrom(_, _, _, _)
MatchFrom(p, k, s, i) ==
  IF k > Len(p) THEN TRUE
  ELSE CASE p[k] = "\\b" ->
              /\ IsWordAt(s, i - 1) # IsWordAt(s, i)
              /\ MatchFrom(p, k + 1, s, i)
         [] p[k] = "\\s+" ->
              \E j \in (i + 1)..(Len(s) + 1) :
                /\ \A n \in i..(j - 1) : IsSpace(s[n])
                /\ MatchFrom(p, k + 1, s, j)
         [] p[k] = "[a-f0-9]" ->
              /\ i <= Len(s)
              /\ s[i] \in HexChars
              /\ MatchFrom(p, k + 1, s, i + 1)
         [] p[k] = "[a-f0-9]{7,}" ->
              \E j \in (i + 7)..(Len(s) + 1) :
                /\ \A n \in i..(j - 1) : s[n] \in HexChars
                /\ MatchFrom(p, k + 1, s, j)
         [] OTHER ->
              /\ i <= Len(s)
              /\ s[i] = p[k]
              /\ MatchFrom(p, k + 1, s, i + 1)

\* re.search(pattern, s)
re_search(p, s) == \E i \in 1..(Len(s) + 1) : MatchFrom(p, 1, s, i)

\* r'\bgit\s+' followed by a sub-command
GitThen(rest) == <<"\\b", "g", "i", "t", "\\s+">> \o rest

BLOCKED_GIT_PATTERNS ==
  << GitThen(<<"l", "o", "g", "\\b">>),
     GitThen(<<"r", "e", "f", "l", "o", "g", "\\b">>),
     GitThen(<<"r", "e", "v", "-", "l", "i", "s", "t", "\\b">>),
     GitThen(<<"s", "h", "o", "w", "\\s+", "[a-f0-9]">>),
     GitThen(<<"c", "a", "t", "-", "f", "i", "l", "e", "\\b">>),
     GitThen(<<"f", "e", "t", "c", "h", "\\b">>),
     GitThen(<<"p", "u", "l", "l", "\\b">>),
     GitThen(<<"r", "e", "m", "o", "t", "e", "\\b">>),
     GitThen(<<"c", "h", "e", "c", "k", "o", "u", "t", "\\s+", "[a-f0-9]{7,}">>),
     GitThen(<<"s", "w", "i", "t", "c", "h", "\\s+", "[a-f0-9]{7,}">>),
     <<".", "g", "i", "t", "/">>,
     <<"/", "e", "v", "a", "l", "u", "a", "t", "i", "o", "n", "/">>,
     <<"/", "s", "e", "c", "u", "r", "e", "_", "g", "i", "t", "\\b">> >>

BlockedReason ==
  "Command blocked: git history/remote commands are disabled to prevent cheating"

is_blocked_command(command) ==
  LET command_lower == Lower(command)
  IN  IF \E k \in 1..Len(BLOCKED_GIT_PATTERNS) :
           re_search(BLOCKED_GIT_PATTERNS[k], command_lower)
      THEN [blocked |-> TRUE, reason |-> BlockedReason]
      ELSE [blocked |-> FALSE, reason |-> ""]

\* the commands of the agent: "ls", "git checkout main", "git log",
\* "Git LOG", "cat .git/HEAD", "git checkout abc1234"
Ls == <<"l", "s">>
GitCheckoutMain ==
  <<"g", "i", "t", " ", "c", "h", "e", "c", "k", "o", "u", "t", " ", "m", "a", "i", "n">>
GitLog == <<"g", "i", "t", " ", "l", "o", "g">>
GitLogUpper == <<"G", "i", "t", " ", "L", "O", "G">>
CatGitHead == <<"c", "a", "t", " ", ".", "g", "i", "t", "/", "H", "E", "A", "D">>
GitCheckoutHash ==
  <<"g", "i", "t", " ", "c", "h", "e", "c", "k", "o", "u", "t", " ",
    "a", "b", "c", "1", "2", "3", "4">>
Commands == {Ls, GitCheckoutMain, GitLog, GitLogUpper, CatGitHead, GitCheckoutHash}

\* is_blocked_command on each of these commands
IsBlocked == [command \in Commands |-> is_blocked_command(command)]

(***************************************************************************)
(* tools/bash.py: _BashSession and BashTool                                 *)
(***************************************************************************)
\* _sentinel = "<<exit>>"
Sentinel == <<"<", "<", "e", "x", "i", "t", ">", ">">>

\* what a command prints on stdout and on stderr
Outputs == {<<>>, <<"o", "\n">>, Sentinel \o <<"\n">>}
Errors == {<<>>, <<"e", "\n">>}

CLIResult(output, error) ==
  [type |-> "CLIResult", output |-> output, error |-> error, system |-> ""]
ToolResult(system, error) ==
  [type |-> "ToolResult", output |-> <<>>, error |-> error, system |-> system]
ToolError(message) ==
  [type |-> "ToolError", output |-> <<>>, error |-> <<message>>, system |-> ""]

TimedOutError ==
  ToolError("timed out: bash has not returned in 1500.0 seconds and must be restarted.")

\* output[: output.index(self._sentinel)]
RECURSIVE Index(_, _)
Index(hay, needle) ==
  IF StartsWith(hay, needle) THEN 0 ELSE 1 + Index(Tail(hay), needle)
BeforeSentinel(output) == SubSeq(output, 1, Index(output, Sentinel))

\* if text.endswith("\n"): text = text[:-1]
StripNewline(text) ==
  IF text # <<>> /\ text[Len(text)] = "\n" THEN SubSeq(text, 1, Len(text) - 1)
  ELSE text

\* a new _BashSession, started: a new process with empty pipes
StartedSession ==
  /\ session' = "session"
  /\ started' = TRUE
  /\ timed_out' = FALSE
  /\ exited' = FALSE
  /\ stdin' = <<>>
  /\ executed' = 0
  /\ echoing' = FALSE
  /\ stdout_buffer' = <<>>
  /\ stderr_buffer' = <<>>

GradingIdle ==
  UNCHANGED <<pc, test_files, use_golden, testDirExists, workspace, reset_failed,
              patch_state, target_packages, idx, merged_xml_parts, overall_success,
              failure_reason, files, junit_xml, result, runs, part_pkgs, stages,
              policy, written_by>>

\* BashTool.__call__(restart=True): stops the session there is, starts a new
\* one; the command is not looked at
ToolRestart ==
  /\ ~polling
  /\ StartedSession
  /\ tool_result' = ToolResult("tool has been restarted.", <<>>)
  /\ UNCHANGED polling
  /\ GradingIdle

\* BashTool.__call__ without restart, up to the run: a session is created
\* and started if there is none
ToolStart ==
  /\ session = "None"
  /\ StartedSession
  /\ UNCHANGED <<polling, tool_result>>
  /\ GradingIdle

\* BashTool.__call__ with neither a command nor restart
CallWithoutCommand ==
  /\ session = "session" /\ ~polling
  /\ tool_result' = ToolError("no command provided.")
  /\ UNCHANGED <<session, started, timed_out, exited, stdin, executed, echoing,
                 stdout_buffer, stderr_buffer, polling>>
  /\ GradingIdle

\* variant of run that writes the command before it looks at the denylist
stdin_written_then_blocked(written, command) == Append(written, command)

\* the stdin of the shell after run returned for a blocked command: the
\* return comes before the write
stdin_when_blocked(written, command) == written

\* _BashSession.run(command) up to its loop: the checks in their order, the
\* denylist, then the write of the command and of the echo of the sentinel
SessionRun(command) ==
  /\ session = "session" /\ ~polling
  /\ IF ~started
     THEN /\ tool_result' = ToolError("Session has not started.")
          /\ UNCHANGED <<stdin, polling>>
     ELSE IF exited
     THEN /\ tool_result' =
               ToolResult("tool must be restarted", <<"bash has exited with returncode">>)
          /\ UNCHANGED <<stdin, polling>>
     ELSE IF timed_out
     THEN /\ tool_result' = TimedOutError
          /\ UNCHANGED <<stdin, polling>>
     ELSE IF IsBlocked[command].blocked
     THEN /\ tool_result' = CLIResult(<<>>, <<IsBlocked[command].reason>>)
          /\ stdin' = stdin_when_blocked(stdin, command)
          /\ UNCHANGED polling
     ELSE /\ Len(stdin) < MaxCommands
          /\ stdin' = Append(stdin, command)
          /\ polling' = TRUE
          /\ UNCHANGED tool_result
  /\ UNCHANGED <<session, started, timed_out, exited, executed, echoing,
                 stdout_buffer, stderr_buffer>>
  /\ GradingIdle

Run == \E command \in Commands : SessionRun(command)

\* the loop of run finds the sentinel in the stdout buffer: the text before
\* it is the output, both buffers are cleared
ReturnOutput ==
  /\ polling
  /\ InStr(Sentinel, stdout_buffer)
  /\ tool_result' = CLIResult(StripNewline(BeforeSentinel(stdout_buffer)),
                              StripNewline(stderr_buffer))
  /\ stdout_buffer' = <<>>
  /\ stderr_buffer' = <<>>
  /\ polling' = FALSE
  /\ UNCHANGED <<session, started, timed_out, exited, stdin, executed, echoing>>
  /\ GradingIdle

\* variant of the handler of TimeoutError that leaves the flag as it is
timed_out_not_set == FALSE

\* self._timed_out = True in the handler of TimeoutError
timed_out_set == TRUE

\* asyncio.timeout expires before the sentinel is there
TimeOut ==
  /\ polling
  /\ ~InStr(Sentinel, stdout_buffer)
  /\ timed_out' = timed_out_set
  /\ tool_result' = TimedOutError
  /\ polling' = FALSE
  /\ UNCHANGED <<session, started, exited, stdin, executed, echoing, stdout_buffer,
                 stderr_buffer>>
  /\ GradingIdle

\* the shell runs the next command of its stdin, which prints something
ShellOutput ==
  /\ started /\ ~exited
  /\ executed < Len(stdin) /\ ~echoing
  /\ \E out \in Outputs, err \in Errors :
       /\ stdout_buffer' = stdout_buffer \o out
       /\ stderr_buffer' = stderr_buffer \o err
  /\ echoing' = TRUE
  /\ UNCHANGED <<session, started, timed_out, exited, stdin, executed, polling,
                 tool_result>>
  /\ GradingIdle

\* the shell runs the echo '<<exit>>' that follows the command
ShellEcho ==
  /\ started /\ ~exited
  /\ echoing
  /\ stdout_buffer' = stdout_buffer \o Sentinel \o <<"\n">>
  /\ executed' = executed + 1
  /\ echoing' = FALSE
  /\ UNCHANGED <<session, started, timed_out, exited, stdin, stderr_buffer, polling,
                 tool_result>>
  /\ GradingIdle

\* the shell process ends
ShellExits ==
  /\ started /\ ~exited
  /\ exited' = TRUE
  /\ UNCHANGED <<session, started, timed_out, stdin, executed, echoing, stdout_buffer,
                 stderr_buffer, polling, tool_result>>
  /\ GradingIdle

BashNext ==
  \/ ToolRestart
  \/ ToolStart
  \/ CallWithoutCommand
  \/ Run
  \/ ReturnOutput
  \/ TimeOut
  \/ ShellOutput
  \/ ShellEcho
  \/ ShellExits

\* the tool alone: no grading run
BashToolInit ==
  /\ BashInit
  /\ pc = "tool"
  /\ test_files = <<>>
  /\ use_golden = FALSE
  /\ testDirExists = FALSE
  /\ workspace = AgentWorkspace(testDirExists)
  /\ reset_failed = FALSE
  /\ patch_state = "absent"
  /\ target_packages = <<>>
  /\ idx = 1
  /\ merged_xml_parts = <<>>
  /\ overall_success = TRUE
  /\ failure_reason = NoReason
  /\ files = NoFiles
  /\ junit_xml = <<>>
  /\ result = NotReturned
  /\ runs = <<>>
  /\ part_pkgs = <<>>
  /\ stages = <<>>
  /\ policy = "binary"
  /\ written_by = NoWriters

BashSpec == BashToolInit /\ [][BashNext]_vars

(***************************************************************************)
(* Scoring as a function of the document: every generated document is       *)
(* handed to the scoring function under one of the two policies             *)
(***************************************************************************)
Count(n) == {Num(i) : i \in 0..n}

\* suites with count attributes, suites whose counts have to be derived from
\* their testcase elements, the suites of the examples, and suites whose
\* attributes int() rejects
AttrSuites ==
  {SuiteEl(<<"p">>, t, f, e, NoAttr, <<>>) :
     t \in Count(MaxCount), f \in Count(MaxCount), e \in {NoAttr, Num(0), Num(1)}}
DerivedSuites ==
  {SuiteEl(<<"p">>, NoAttr, NoAttr, NoAttr, NoAttr, cases) :
     cases \in SeqsUpTo({"pass", "failure", "error"}, MaxCases)}
ExampleSuites ==
  {SuiteEl(<<"p">>, Num(10), Num(0), Num(0), Num(0), <<>>),
   SuiteEl(<<"p">>, Num(10), Num(3), Num(0), Num(0), <<>>),
   SuiteEl(<<"p">>, Num(5), Num(0), NoAttr, NoAttr, <<>>),
   SuiteEl(<<"p">>, Num(5), Num(5), NoAttr, NoAttr, <<>>),
   SuiteEl(<<"p">>, EmptyAttr, NoAttr, NoAttr, NoAttr, <<"pass", "skipped">>)}
RejectedSuites ==
  {SuiteEl(<<"p">>, TextAttr, NoAttr, NoAttr, NoAttr, <<>>),
   SuiteEl(<<"p">>, Num(1), EmptyAttr, NoAttr, NoAttr, <<>>)}
SuiteSet == AttrSuites \cup DerivedSuites \cup ExampleSuites \cup RejectedSuites

\* documents in the result-document format (a root with suites, or one suite
\* as root), a document whose suites sit one level deeper, and malformed text
ScoreDocs ==
  {Xml(TRUE, SuitesEl(ss)) : ss \in SeqsUpTo(SuiteSet, MaxSuites)}
  \cup {Xml(TRUE, s) : s \in SuiteSet}
  \cup {Xml(TRUE, SuitesEl(<<GoPass.root>>)), Malformed}

\* the graduated policy applied to a document, with the parsing and counting
\* of _calculate_score
graduated_score(xml) ==
  IF ~xml.wf THEN [raised |-> FALSE, score |-> 0, parsed |-> FALSE]
  ELSE IF \E i \in 1..Len(ScoredSuites(xml.root)) : SuiteRaises(ScoredSuites(xml.root)[i])
  THEN [raised |-> TRUE, score |-> 0, parsed |-> TRUE]
  ELSE [raised |-> FALSE, score |-> GraduatedDecision(Totals(ScoredSuites(xml.root))),
        parsed |-> TRUE]

ScoreInit ==
  /\ pc = "score_input"
  /\ junit_xml \in {<<d>> : d \in ScoreDocs}
  /\ policy \in {"binary", "graduated"}
  /\ test_files = <<>>
  /\ use_golden = FALSE
  /\ testDirExists = FALSE
  /\ workspace = AgentWorkspace(testDirExists)
  /\ reset_failed = FALSE
  /\ patch_state = "absent"
  /\ target_packages = <<>>
  /\ idx = 1
  /\ merged_xml_parts = <<>>
  /\ overall_success = TRUE
  /\ failure_reason = NoReason
  /\ files = NoFiles
  /\ result = NotReturned
  /\ runs = <<>>
  /\ part_pkgs = <<>>
  /\ stages = <<>>
  /\ written_by = NoWriters
  /\ BashInit

ScoreDocument ==
  /\ pc = "score_input"
  /\ LET r == IF policy = "binary" THEN calculate_score(junit_xml[1])
              ELSE graduated_score(junit_xml[1])
     IN  result' = IF r.raised THEN ReturnedError ELSE Returned(r.score, junit_xml[1])
  /\ pc' = "scored"
  /\ UNCHANGED <<test_files, use_golden, testDirExists, workspace, reset_failed,
                 patch_state, target_packages, idx, merged_xml_parts, overall_success,
                 failure_reason, files, junit_xml, runs, part_pkgs, stages, policy, written_by, bashVars>>

ScoreNext == ScoreDocument

ScoreSpec == ScoreInit /\ [][ScoreNext]_vars

(***************************************************************************)
(* Properties                                                               *)
(***************************************************************************)
Abs(x) == IF x < 0 THEN -x ELSE x

\* every suite element of a document, at whatever depth
RECURSIVE AllSuites(_)
AllSuitesOfSeq(es) ==
  LET RECURSIVE Flat(_)
      Flat(q) == IF q = <<>> THEN <<>> ELSE AllSuites(Head(q)) \o Flat(Tail(q))
  IN  Flat(es)
AllSuites(el) ==
  IF el.tag = "testsuite" THEN <<el>>
  ELSE IF el.tag = "testsuites" THEN AllSuitesOfSeq(el.children)
  ELSE <<>>

\* the result-document format: a suite, or a root whose children are suites
InFormat(xml) ==
  /\ xml.wf
  /\ \/ xml.root.tag = "testsuite"
     \/ /\ xml.root.tag = "testsuites"
        /\ \A i \in 1..Len(xml.root.children) : xml.root.children[i].tag = "testsuite"

\* the count attributes of every suite are numbers
NumericCounts(xml) ==
  \A i \in 1..Len(AllSuites(xml.root)) : ~SuiteRaises(AllSuites(xml.root)[i])

\* the aggregate counts (N, F, E, S) of a document: the sum over its suites
DocTotals(xml) == Totals(AllSuites(xml.root))

\* C1: under the binary policy a document in the result-document format with
\* aggregate counts N, F, E scores 1.0 exactly when F = 0, E = 0 and N > 0,
\* and 0.0 otherwise.
C1_BinaryScore ==
  (pc = "scored" /\ policy = "binary"
     /\ InFormat(junit_xml[1]) /\ NumericCounts(junit_xml[1]))
  => LET t == DocTotals(junit_xml[1])
     IN  /\ result.returned
         /\ "junit" \in result.keys
         /\ result.score =
              IF t.failures = 0 /\ t.errors = 0 /\ t.tests > 0 THEN Scale ELSE 0

\* a document of two suites, with tests and no failure or error, scored 1.0
C1_Witness ==
  /\ pc = "scored" /\ policy = "binary"
  /\ InFormat(junit_xml[1]) /\ NumericCounts(junit_xml[1])
  /\ Len(AllSuites(junit_xml[1].root)) = 2
  /\ DocTotals(junit_xml[1]).tests > 0
  /\ result.score = Scale

\* C5: under the graduated policy a document with aggregate counts N, F, E
\* scores 0.1 when N = 0 and otherwise 0.1 + 0.9 * (N - F - E) / N rounded to
\* four decimal digits; N=10, F=3 gives 0.73 and N=10, F=5 gives 0.55.
C5_GraduatedScore ==
  (pc = "scored" /\ policy = "graduated"
     /\ InFormat(junit_xml[1]) /\ NumericCounts(junit_xml[1]))
  => LET t == DocTotals(junit_xml[1])
         exact == (Scale \div 10) * (t.tests + 9 * (t.tests - t.failures - t.errors))
     IN  /\ result.returned
         /\ t.tests = 0 => result.score = Scale \div 10
         /\ t.tests > 0 => 2 * Abs(result.score * t.tests - exact) <= t.tests
         /\ (t.tests = 10 /\ t.failures = 3 /\ t.errors = 0) => result.score = 7300
         /\ (t.tests = 10 /\ t.failures = 5 /\ t.errors = 0) => result.score = 5500
         /\ (t.tests = 10 /\ t.failures = 0 /\ t.errors = 0) => result.score = Scale

\* two suites totalling tests=10, failures=5, errors=0, scored 0.55 under the
\* graduated policy
C5_Witness ==
  /\ pc = "scored" /\ policy = "graduated"
  /\ InFormat(junit_xml[1]) /\ NumericCounts(junit_xml[1])
  /\ Len(AllSuites(junit_xml[1].root)) = 2
  /\ DocTotals(junit_xml[1]).tests = 10
  /\ DocTotals(junit_xml[1]).failures = 5
  /\ DocTotals(junit_xml[1]).errors = 0
  /\ result.score = 5500

(***************************************************************************)
(* Properties of a grading run                                              *)
(***************************************************************************)
Last(q) == q[Len(q)]
TimedOut == \E i \in 1..Len(runs) : runs[i].kind = "timeout"
LaunchFailed == \E i \in 1..Len(runs) : runs[i].kind = "oserror"
TestsReturned == pc \in {"tested", "done"} /\ junit_xml # <<>>
FatalErrorDoc == format_junit_xml(<<"F", "a", "t", "a", "l", "E", "r", "r", "o", "r">>)

\* C2: run_grading always returns (score, diagnostics) with the score in
\* [0, 1]; diagnostics holds the aggregated document on every path that
\* produced one and an error description on every path that ended before.
C2_TotalWithDocument ==
  pc = "done"
  => /\ result.returned
     /\ 0 <= result.score /\ result.score <= Scale
     /\ junit_xml # <<>> => ("junit" \in result.keys /\ result.junit = junit_xml)
     /\ junit_xml = <<>> => "error" \in result.keys

\* C3: if every scope exits with status 0 and writes a document in the
\* result-document format without failures or errors, and at least one test
\* ran, run_grading returns score 1.0.
AllScopesPassed ==
  /\ Len(runs) = Len(target_packages) /\ runs # <<>>
  /\ \A i \in 1..Len(runs) :
       /\ runs[i].kind = "exit" /\ runs[i].rc = 0 /\ runs[i].wrote # <<>>
       /\ InFormat(runs[i].wrote[1]) /\ NumericCounts(runs[i].wrote[1])
       /\ DocTotals(runs[i].wrote[1]).failures = 0
       /\ DocTotals(runs[i].wrote[1]).errors = 0
  /\ \E i \in 1..Len(runs) : DocTotals(runs[i].wrote[1]).tests > 0

C3_AllPassScoresOne ==
  (pc = "done" /\ AllScopesPassed) => result.score = Scale

\* C4: the counts that scoring derives from the merged document are the sums
\* of the counts of the collected per-scope documents.
PartTotals(i) == Totals(ScoredSuites(merged_xml_parts[i].root))
C4_CountPreserving ==
  (/\ TestsReturned
   /\ junit_xml[1] = MergeXml(merged_xml_parts)
   /\ \A i \in 1..Len(merged_xml_parts) :
        merged_xml_parts[i].wf /\ NumericCounts(merged_xml_parts[i]))
  => LET t == Totals(ScoredSuites(junit_xml[1].root))
         n == Len(merged_xml_parts)
     IN  /\ t.tests = SumSeq([i \in 1..n |-> PartTotals(i).tests])
         /\ t.failures = SumSeq([i \in 1..n |-> PartTotals(i).failures])
         /\ t.errors = SumSeq([i \in 1..n |-> PartTotals(i).errors])
         /\ t.skipped = SumSeq([i \in 1..n |-> PartTotals(i).skipped])

\* C6: after a timeout the document returned by _run_tests is a synthetic
\* document alone, without any suite collected before the timeout, and the
\* final score is the score of that document.
C6_TimeoutVoidsRun ==
  (TestsReturned /\ TimedOut)
  => LET alone == MergeXml(<<TimeoutSuite(Last(runs).pkg)>>)
     IN  /\ junit_xml[1] \in {alone, FatalErrorDoc}
         /\ pc = "done" => result.score = calculate_score(alone).score

\* C7: a timeout is the last invocation of the run: no later scope is
\* started, and the synthetic failing suite named after the timed-out scope
\* is the last part produced.
C7_TimeoutStopsTests ==
  \A i \in 1..Len(runs) :
    runs[i].kind = "timeout"
    => /\ i = Len(runs)
       /\ runs[i].pkg = target_packages[i]
       /\ pc \in {"loop_end", "tested", "done"}
       /\ merged_xml_parts # <<>>
       /\ Last(merged_xml_parts) = TimeoutSuite(runs[i].pkg)
       /\ SuiteCounts(Last(merged_xml_parts).root).tests = 1
       /\ SuiteCounts(Last(merged_xml_parts).root).failures = 1

\* the first of three scopes timed out and the run went on to its end
C7_Witness ==
  /\ pc = "done"
  /\ Len(target_packages) = 3
  /\ Len(runs) = 1
  /\ runs[1].kind = "timeout"

\* C8: without a timeout every scope is invoked exactly once, whatever the
\* exit statuses, and every document a scope wrote is in the aggregate.
C8_AllScopesRetained ==
  (TestsReturned /\ ~TimedOut /\ ~LaunchFailed)
  => /\ Len(runs) = Len(target_packages)
     /\ \A i \in 1..Len(runs) : runs[i].pkg = target_packages[i]
     /\ \A i \in 1..Len(runs) :
          runs[i].wrote # <<>>
          => \E k \in 1..Len(junit_xml[1].root.children) :
               junit_xml[1].root.children[k] = runs[i].wrote[1].root

\* C9: the scopes are in lexicographic order and do not depend on the order
\* or duplication of the paths in test_files; they are invoked in that order
\* and the parts of the aggregate follow it.
Increasing(q) == \A i, j \in 1..Len(q) : i < j => StrLess(q[i], q[j])
C9_ScopeOrder ==
  "Test" \in Range(stages)
  => /\ Increasing(target_packages)
     /\ runs = <<>>
        => \A fs \in SeqsUpTo(Paths, MaxFiles + 1) :
             Range(fs) = Range(test_files)
             => get_target_packages(fs, testDirExists) = target_packages
     /\ Len(runs) <= Len(target_packages)
     /\ \A i \in 1..Len(runs) : runs[i].pkg = target_packages[i]
     /\ Len(part_pkgs) = Len(merged_xml_parts)
     /\ Increasing(part_pkgs)
     /\ Range(part_pkgs) \subseteq {runs[i].pkg : i \in 1..Len(runs)}
     /\ (TestsReturned /\ junit_xml[1] # FatalErrorDoc)
        => junit_xml[1].root.children =
             [i \in 1..Len(merged_xml_parts) |-> merged_xml_parts[i].root]

\* test_files lists "a_b/y.go" before "a/b/x.go"; the three scopes ran in
\* lexicographic order and each contributed a part
C9_Witness ==
  /\ pc = "done"
  /\ Len(test_files) = 2
  /\ dirname(test_files[1]) = <<"a", "_", "b">>
  /\ dirname(test_files[2]) = <<"a", "/", "b">>
  /\ Len(target_packages) = 3
  /\ Len(part_pkgs) = 3
  /\ "junit" \in result.keys

StageOrder == <<"AntiCheat", "Patch", "Test", "Aggregate", "Score">>
BuildFailed == \E i \in 1..Len(runs) : runs[i].build
SyntheticFailure(xml) ==
  /\ InFormat(xml)
  /\ Len(AllSuites(xml.root)) = 1
  /\ AllSuites(xml.root)[1].cases = <<"failure">>
C11_BuildFailureScoresZero ==
  (pc = "done" /\ BuildFailed)
  => /\ result.score = 0
     /\ result.junit # <<>>
     /\ SyntheticFailure(result.junit[1])

\* C12: when the restoration command fails the run goes on, and the
\* diagnostics that run_grading returns record that the restoration failed:
\* they hold more than the document, the two durations and the description
\* of an exception that ended the run.
C12_ResetFailureSurfaced ==
  /\ (reset_failed /\ pc = "reset_done") => ~result.returned
  /\ (reset_failed /\ pc = "done")
     => \E k \in result.keys :
          k \notin {"junit", "test_duration", "total_duration", "error"}

\* C13: with a golden reference and a restoration that succeeded, every file
\* of the workspace that matches the anti-cheat policy and exists in the
\* golden reference has its golden content from the end of the anti-cheat
\* stage on, so that no scope runs a test file the agent edited.
C13_AntiCheatCoverage ==
  (use_golden /\ ~reset_failed /\ pc # "start")
  => \A f \in GoldenPaths : is_test_file(f) => workspace[f] = "golden"

\* C14: running _reset_test_files a second time after the first (failing
\* again if the first failed) leaves every file as the first run left it,
\* and without a golden reference the stage changes no file.
C14_ResetIdempotent ==
  pc = "reset_done"
  => /\ \A ok \in BOOLEAN :
          (~reset_failed \/ ~ok)
          => LET twice == reset_test_files(workspace, testDirExists, use_golden, ok)
             IN  /\ twice.workspace = workspace
                 /\ twice.testDirExists = testDirExists
     /\ ~use_golden => workspace = AgentWorkspace(testDirExists)

\* the restoration succeeded: the file under test/ has golden content and
\* the other files are as the agent left them
C14_Witness ==
  /\ pc = "reset_done"
  /\ use_golden /\ ~reset_failed
  /\ workspace[TestDirFile] = "golden"
  /\ workspace[PackageTestFile] = "agent"

\* C15: a scope document that cannot be parsed is left out of the
\* aggregate, which still parses and holds the suites of all well-formed
\* scope documents.
WellFormedParts == SelectSeq(merged_xml_parts, LAMBDA part : part.wf)
C15_UnparseableExcluded ==
  (/\ TestsReturned
   /\ junit_xml[1] = MergeXml(merged_xml_parts)
   /\ \E i \in 1..Len(merged_xml_parts) : ~merged_xml_parts[i].wf)
  => /\ junit_xml[1].wf
     /\ junit_xml[1].root.children =
          [i \in 1..Len(WellFormedParts) |-> WellFormedParts[i].root]

\* C16: the repository at the configured source path is after run_grading
\* as it was before: no file restored from the golden reference, no patch
\* applied, no result file written there.
C16_SourceUntouched ==
  pc = "done"
  => /\ \A f \in WorkspacePaths : workspace[f] # "golden"
     /\ patch_state # "applied"
     /\ files = NoFiles

\* C19: two different scopes of a run write different result files, so the
\* file read for a scope is the one its own invocation wrote.
C19_DistinctFiles ==
  /\ \A i, j \in 1..Len(target_packages) :
       i # j => pkg_xml_file(target_packages[i]) # pkg_xml_file(target_packages[j])
  /\ \A i \in 1..Len(runs) :
       runs[i].read # <<>> => runs[i].read[1] = [run |-> "self", pkg |-> runs[i].pkg]

\* C20: if the invocation of a scope exits with a non-zero status,
\* run_grading does not return 1.0.
C20_FailedScopeNotPerfect ==
  (pc = "done" /\ \E i \in 1..Len(runs) : runs[i].kind = "exit" /\ runs[i].rc # 0)
  => result.score # Scale

\* C17: with two runs interleaved, no run reads or aggregates a result file
\* that a test invocation of the other run wrote, and the score of a run is
\* the score its own invocations' documents give.
OwnDocument(i) ==
  IF runs[i].wrote # <<>> THEN <<StripDecl(runs[i].wrote[1])>> ELSE <<>>
C17_RunsIsolated ==
  /\ \A i \in 1..Len(runs) : runs[i].read # <<>> => runs[i].read[1].run = "self"
  /\ (pc = "done" /\ "junit" \in result.keys /\ ~TimedOut
       /\ \A i, j \in 1..Len(runs) : i # j => pkg_xml_file(runs[i].pkg) # pkg_xml_file(runs[j].pkg))
     => LET own == [i \in 1..Len(runs) |-> OwnDocument(i)]
            RECURSIVE Cat(_)
            Cat(q) == IF q = <<>> THEN <<>> ELSE Head(q) \o Cat(Tail(q))
        IN  result.junit[1] \in {MergeXml(Cat(own)), FatalErrorDoc}

\* C21: without test_files there is exactly one scope, the whole suite;
\* with test_files there is exactly one scope per directory touched by a
\* path of the list, plus the scope of test/ exactly if that directory
\* exists, so that a non-empty list yields at least one scope.
ScopeOfDirectory(filepath) ==
  IF dirname(filepath) # <<>> THEN <<".", "/">> \o dirname(filepath) ELSE <<".">>
C21_ScopeDerivation ==
  "Test" \in Range(stages)
  => IF test_files = <<>> THEN target_packages = <<AllPackages>>
     ELSE /\ Range(target_packages) =
               {ScopeOfDirectory(f) : f \in Range(test_files)}
               \cup (IF testDirExists THEN {TestPackages} ELSE {})
          /\ \A i, j \in 1..Len(target_packages) :
               i # j => target_packages[i] # target_packages[j]
          /\ target_packages # <<>>

(***************************************************************************)
(* Properties of the shell tool                                             *)
(***************************************************************************)
\* the commands the denylist matches
BlockedCommands == {c \in Commands : IsBlocked[c].blocked}

\* C18 as stated: in any session state, run of a command the denylist
\* matches writes nothing to stdin, returns empty output with the block
\* reason as error, and leaves started, the timed-out flag and the output
\* buffers as they were.
C18_BlockedInAnyState ==
  [][\A c \in BlockedCommands :
       SessionRun(c)
       => /\ stdin' = stdin
          /\ tool_result' = CLIResult(<<>>, <<BlockedReason>>)
          /\ UNCHANGED <<started, timed_out, stdout_buffer, stderr_buffer>>]_vars

\* C18: in any session state, run of a command the denylist matches writes
\* nothing to stdin and leaves the session (started, timed-out flag, output
\* buffers, the process) as it was; it returns empty output with the block
\* reason as error when the process runs and the session has not timed out,
\* and otherwise what run reports for any command: the process has exited,
\* or the session timed out and must be restarted.
C18_BlockedNeverWritten ==
  [][\A c \in BlockedCommands :
       SessionRun(c)
       => /\ stdin' = stdin
          /\ UNCHANGED <<session, started, timed_out, exited, executed, echoing,
                         stdout_buffer, stderr_buffer, polling>>
          /\ tool_result' =
               IF exited
               THEN ToolResult("tool must be restarted", <<"bash has exited with returncode">>)
               ELSE IF timed_out THEN TimedOutError
               ELSE CLIResult(<<>>, <<BlockedReason>>)]_vars

\* after a command that ran to its end, a denylisted command was refused
\* with the block reason
C18_Witness ==
  /\ tool_result = CLIResult(<<>>, <<BlockedReason>>)
  /\ stdin = <<Ls>>
  /\ executed = 1
  /\ started /\ ~timed_out /\ ~exited

\* C22: a command that times out leaves the session timed out; on a timed
\* out session every run fails with an error and writes nothing to stdin,
\* nothing else writes to it either, and the flag goes only by
\* BashTool called with restart, which starts a new session.
C22_TimeoutSticky ==
  [][/\ TimeOut => timed_out'
     /\ timed_out
        => /\ \A c \in Commands :
                SessionRun(c)
                => /\ stdin' = stdin
                   /\ timed_out'
                   /\ ~polling'
                   /\ tool_result'.type \in {"ToolError", "ToolResult"}
                   /\ tool_result'.error # <<>>
           /\ stdin' # stdin => ToolRestart
           /\ ~timed_out' => ToolRestart
     /\ ToolRestart => (~timed_out' /\ ~exited' /\ stdin' = <<>> /\ stdout_buffer' = <<>>)]_vars

\* a run on a session that had timed out, and whose shell has exited, was
\* refused; the one command written before is all the shell got
C22_Witness ==
  /\ timed_out
  /\ stdin = <<Ls>>
  /\ tool_result.system = "tool must be restarted"

\* C23: whatever the commands print, a sentinel that the loop of run can
\* see is the one echoed after the command it waits for, so run returns
\* only when that command is over; and between two commands nothing of an
\* earlier command is left: the buffer is empty and the shell has run
\* everything it was sent.
C23_SentinelSeparates ==
  /\ (polling /\ InStr(Sentinel, stdout_buffer)) => executed = Len(stdin)
  /\ (~polling /\ ~timed_out) => (stdout_buffer = <<>> /\ executed = Len(stdin))

====
